---------------------------- MODULE Spec2Model ----------------------------
(***************************************************************************)
(* A model of bagit.py (src/bagit.py): building a bag (make_bag,           *)
(* _make_manifest, _manifest_line), loading it (Bag._open, _load_tag_file, *)
(* _parse_tags, Bag._load_manifests) and validating it (Bag.validate and   *)
(* the _validate_* methods).                                               *)
(*                                                                         *)
(* Text is a sequence of characters, each character a one-element string.  *)
(* A string of more than one letter used as a character ("BagIt-Version")  *)
(* stands for a run of letters none of which is whitespace, ':' or '.':    *)
(* the code never looks inside such a run.  A file read line by line is a  *)
(* sequence of lines, each ending in "\n".                                 *)
(*                                                                         *)
(* Three specifications share the variables:                               *)
(*   SpecTags  the tag file parser run line by line on a bounded file,     *)
(*   SpecPool  _make_manifest with its worker pool on a bounded payload,   *)
(*   Spec      a directory that is bagged, edited, opened and validated.   *)
(***************************************************************************)
EXTENDS Naturals, Sequences, FiniteSets, TLC

VARIABLES parser, pool, fs, build, bag, val, edits

vars == <<parser, pool, fs, build, bag, val, edits>>

(***************************************************************************)
(* Bounds of the model.                                                    *)
(***************************************************************************)
\* the longest tag file SpecTags parses, in lines
MaxTagLines == 3

(***************************************************************************)
(* Python values.  An optional string is a sequence of at most one         *)
(* element: None is <<>>, the string s is <<s>>.                           *)
(***************************************************************************)
None == <<>>

Some(s) == <<s>>

\* str.isspace() of one character
IsSpace(c) == c \in {" ", "\t", "\n", "\r"}

\* str.isspace(): false for the empty string
isspace(s) == s # <<>> /\ \A i \in 1..Len(s) : IsSpace(s[i])

RECURSIVE lstrip(_)
lstrip(s) == IF s # <<>> /\ IsSpace(Head(s)) THEN lstrip(Tail(s)) ELSE s

RECURSIVE rstrip(_)
rstrip(s) ==
    IF s # <<>> /\ IsSpace(s[Len(s)]) THEN rstrip(SubSeq(s, 1, Len(s) - 1)) ELSE s

\* str.strip()
strip(s) == rstrip(lstrip(s))

\* the first place of character c in s, 0 when there is none
Find(s, c) ==
    IF \E i \in 1..Len(s) : s[i] = c
    THEN CHOOSE i \in 1..Len(s) : s[i] = c /\ \A j \in 1..(i - 1) : s[j] # c
    ELSE 0

\* str.split(c, 1): one part when c does not occur, else two
split1(s, c) ==
    LET k == Find(s, c)
    IN  IF k = 0 THEN <<s>> ELSE <<SubSeq(s, 1, k - 1), SubSeq(s, k + 1, Len(s))>>

\* dict(pairs): the last value of a repeated key wins
RECURSIVE dict(_)
dict(pairs) ==
    IF pairs = <<>> THEN <<>>
    ELSE LET d == dict(SubSeq(pairs, 1, Len(pairs) - 1))
             last == pairs[Len(pairs)]
         IN  [k \in (DOMAIN d) \cup {last[1]} |-> IF k = last[1] THEN last[2] ELSE d[k]]

\* d.get(k): None when absent
get(d, k) == IF k \in DOMAIN d THEN Some(d[k]) ELSE None

(***************************************************************************)
(* _parse_tags: the generator's locals, the records it has yielded so far  *)
(* and the exception that ended it ("" while none has).                    *)
(***************************************************************************)
ParseStart == [tag_name |-> None, tag_value |-> None, out |-> <<>>, err |-> ""]

\* Python's truth of an optional string: None and '' are false
Truthy(opt) == opt # None /\ opt[1] # <<>>

\* `if tag_name: yield (tag_name, tag_value)`
yield_tag(st) ==
    IF Truthy(st.tag_name) THEN Append(st.out, <<st.tag_name[1], st.tag_value[1]>>)
    ELSE st.out

\* one iteration of `for line in file`
parse_line(st, line) ==
    IF Len(line) = 0 \/ isspace(line) THEN st
    ELSE IF IsSpace(line[1])
    THEN \* folded line: tag_value += line.strip()
         IF st.tag_value = None THEN [st EXCEPT !.err = "TypeError"]
         ELSE [st EXCEPT !.tag_value = Some(st.tag_value[1] \o strip(line))]
    ELSE LET parts == split1(strip(line), ":")
         IN  IF Len(parts) < 2
             THEN [st EXCEPT !.out = yield_tag(st),
                             !.tag_name = Some(strip(parts[1])),
                             !.err = "IndexError"]
             ELSE [st EXCEPT !.out = yield_tag(st),
                             !.tag_name = Some(strip(parts[1])),
                             !.tag_value = Some(strip(parts[2]))]

\* the generator run to its end on a whole file
RECURSIVE parse_from(_, _)
parse_from(st, lines) ==
    IF st.err # "" THEN st
    ELSE IF lines = <<>> THEN [st EXCEPT !.out = yield_tag(st)]
    ELSE parse_from(parse_line(st, Head(lines)), Tail(lines))

parse_tags(lines) == parse_from(ParseStart, lines)

\* _load_tag_file: the dict of the records, or the parser's exception
load_tag_file(lines) ==
    LET r == parse_tags(lines)
    IN  IF r.err # "" THEN [err |-> r.err, tags |-> <<>>]
        ELSE [err |-> "", tags |-> dict(r.out)]

(***************************************************************************)
(* SpecTags: _parse_tags consumed line by line.                            *)
(***************************************************************************)
\* "Name: Foo\n  bar\n"
FoldedInput ==
    << <<"N", "a", "m", "e", ":", " ", "F", "o", "o", "\n">>,
       <<" ", " ", "b", "a", "r", "\n">> >>

TagLines ==
    { FoldedInput[1], FoldedInput[2],
      <<"\n">>, <<" ", "\t", "\n">>,
      <<"X", " ", ":", " ", "a", ":", "b", " ", "\n">>,
      <<"\t", "c", " ", "d", "\n">>,
      <<"N", "a", "m", "e", ":", "Z", "\n">>,
      <<":", "v", "\n">>,
      <<"n", "o", "c", "o", "l", "o", "n", "\n">> }

TagFiles == UNION { [1..n -> TagLines] : n \in 0..MaxTagLines }

ParserIdle == [pc |-> "idle"]

TagsInit ==
    /\ parser \in { [pc |-> "lines", file |-> f, pos |-> 1, st |-> ParseStart] :
                    f \in TagFiles }
    /\ pool = [pc |-> "idle"]
    /\ fs = <<>>
    /\ build = [pc |-> "idle"]
    /\ bag = [open |-> FALSE]
    /\ val = [pc |-> "idle"]
    /\ edits = 0

\* the body of the for loop, once
ParseTagsLine ==
    /\ parser.pc = "lines"
    /\ parser.pos <= Len(parser.file)
    /\ LET st == parse_line(parser.st, parser.file[parser.pos])
       IN  parser' = [parser EXCEPT !.st = st,
                                    !.pos = @ + 1,
                                    !.pc = IF st.err # "" THEN "raised" ELSE "lines"]
    /\ UNCHANGED <<pool, fs, build, bag, val, edits>>

\* past the EOF: the last record is yielded
ParseTagsEOF ==
    /\ parser.pc = "lines"
    /\ parser.pos > Len(parser.file)
    /\ parser' = [parser EXCEPT !.st.out = yield_tag(parser.st), !.pc = "done"]
    /\ UNCHANGED <<pool, fs, build, bag, val, edits>>

TagsNext == ParseTagsLine \/ ParseTagsEOF

SpecTags == TagsInit /\ [][TagsNext]_vars

\* the line-by-line run and the whole-file operator agree
TagsStepwiseAgrees ==
    parser.pc = "done" => parser.st.out = parse_tags(parser.file).out

\* C8: parsing "Name: Foo\n  bar\n" yields exactly one record, named 'Name',
\* with the value 'Foo bar'; a line that starts with whitespace extends the
\* record being accumulated and never starts a new one.
C8_FoldingYieldsFooBar ==
    (parser.pc = "done" /\ parser.file = FoldedInput)
        => parser.st.out = << << <<"N", "a", "m", "e">>,
                                 <<"F", "o", "o", " ", "b", "a", "r">> >> >>

\* what the code yields on that input: the value 'Foobar'
C8_CodeYieldsFoobar ==
    (parser.pc = "done" /\ parser.file = FoldedInput)
        => parser.st.out = << << <<"N", "a", "m", "e">>,
                                 <<"F", "o", "o", "b", "a", "r">> >> >>

(***************************************************************************)
(* The file system.  A path is the sequence of its components             *)
(* (data/b/b.txt is <<"data", "b", "b.txt">>), relative to the bag         *)
(* directory; fs maps each existing path to its node: a directory, a       *)
(* regular file with its content, or something that is neither.            *)
(***************************************************************************)
Dir == [kind |-> "dir"]

File(content) == [kind |-> "file", content |-> content]

Other == [kind |-> "other"]

exists(fsys, p) == p \in DOMAIN fsys

isfile(fsys, p) == p \in DOMAIN fsys /\ fsys[p].kind = "file"

isdir(fsys, p) == p \in DOMAIN fsys /\ fsys[p].kind = "dir"

IsPrefix(d, p) == Len(d) <= Len(p) /\ SubSeq(p, 1, Len(d)) = d

\* the files os.walk finds below d: every entry that is not a directory
walk(fsys, d) ==
    { p \in DOMAIN fsys : IsPrefix(d, p) /\ p # d /\ fsys[p].kind # "dir" }

\* os.stat(p).st_size
st_size(fsys, p) == IF isfile(fsys, p) THEN Len(fsys[p].content) ELSE 0

\* the sequences that list every element of the finite set S once
Orders(S) ==
    { s \in [1..Cardinality(S) -> S] : \A i, j \in 1..Cardinality(S) : s[i] = s[j] => i = j }

(***************************************************************************)
(* hashlib.  A hash object is the algorithm and the bytes fed to it so     *)
(* far; its hex digest is modelled free of collisions, as the algorithm    *)
(* name followed by those bytes, a whitespace byte written as its escape   *)
(* (a hex digest holds no whitespace).                                     *)
(***************************************************************************)
\* the algorithms hashlib.new accepts; "sha256" is one the module's
\* checksum_algos does not list, "crc9" one hashlib does not know
HashlibAlgos == {"md5", "sha1", "sha256"}

hashlib_new(alg) == [alg |-> alg, fed |-> <<>>]

update(h, block) == [h EXCEPT !.fed = @ \o block]

HexChar(c) ==
    IF c = " " THEN "%20" ELSE IF c = "\n" THEN "%0A"
    ELSE IF c = "\t" THEN "%09" ELSE IF c = "\r" THEN "%0D" ELSE c

hexdigest(h) == <<h.alg, "=">> \o [i \in 1..Len(h.fed) |-> HexChar(h.fed[i])]

Min(a, b) == IF a <= b THEN a ELSE b

\* the block size of _manifest_line's reads
ManifestBlock == 16384

\* the block size of _calculate_file_hashes' reads
ValidateBlock == 1048576

\* "%s" of a non-negative integer
DigitChars == <<"0", "1", "2", "3", "4", "5", "6", "7", "8", "9">>

RECURSIVE str_int(_)
str_int(n) ==
    IF n < 10 THEN <<DigitChars[n + 1]>>
    ELSE str_int(n \div 10) \o <<DigitChars[(n % 10) + 1]>>

\* "%s.%s" % (total_bytes, num_files)
format_oxum(total_bytes, num_files) == str_int(total_bytes) \o <<".">> \o str_int(num_files)

(***************************************************************************)
(* _manifest_line: one pool task.  The loop reads a block, adds its        *)
(* length, stops on the empty block and otherwise feeds it to the md5.     *)
(***************************************************************************)
RECURSIVE manifest_read(_, _, _)
manifest_read(rest, m, total_bytes) ==
    LET bytes == SubSeq(rest, 1, Min(ManifestBlock, Len(rest)))
    IN  IF bytes = <<>> THEN [m |-> m, total_bytes |-> total_bytes + Len(bytes)]
        ELSE manifest_read(SubSeq(rest, Len(bytes) + 1, Len(rest)),
                           update(m, bytes), total_bytes + Len(bytes))

manifest_line(fsys, filename) ==
    LET r == manifest_read(fsys[filename].content, hashlib_new("md5"), 0)
    IN  [digest |-> hexdigest(r.m), filename |-> filename, bytes |-> r.total_bytes]

\* the loop of _make_manifest over the list pool.map returned
RECURSIVE manifest_loop(_, _)
manifest_loop(results, acc) ==
    IF results = <<>> THEN acc
    ELSE manifest_loop(Tail(results),
            [num_files |-> acc.num_files + 1,
             total_bytes |-> acc.total_bytes + Head(results).bytes,
             manifest |-> Append(acc.manifest,
                 [digest |-> Head(results).digest, filename |-> Head(results).filename])])

ManifestStart == [num_files |-> 0, total_bytes |-> 0, manifest |-> <<>>]

\* _make_manifest as a whole, on the files in the order _walk yields them:
\* the lines written and the Oxum returned
make_manifest(fsys, order) ==
    LET acc == manifest_loop([i \in 1..Len(order) |-> manifest_line(fsys, order[i])],
                             ManifestStart)
    IN  [manifest |-> acc.manifest, Oxum |-> format_oxum(acc.total_bytes, acc.num_files)]

(***************************************************************************)
(* SpecPool: _make_manifest with the tasks of pool.map run by `processes`  *)
(* workers.  A worker takes any task not yet taken and finishes it at any  *)
(* later time; pool.map returns the results in the order of the tasks.     *)
(***************************************************************************)
\* the most payload files of SpecPool
MaxPoolFiles == 3

\* the most worker processes of SpecPool
MaxProcesses == 2

hello == <<"h", "e", "l", "l", "o">>

world == <<"w", "o", "r", "l", "d", "!">>

PoolFileList ==
    << <<<<"data", "a.txt">>, hello>>,
       <<<<"data", "b", "b.txt">>, world>>,
       <<<<"data", "c">>, <<>>>>,
       <<<<"data", "d">>, <<"x">>>>,
       <<<<"data", "b", "e">>, <<"y", "z">>>> >>

\* the directories above the paths of P
Ancestors(P) == UNION { { SubSeq(p, 1, n) : n \in 1..(Len(p) - 1) } : p \in P }

\* the tree holding the files `chosen` (places in PoolFileList) under data/
PoolTree(chosen) ==
    LET P == { PoolFileList[i][1] : i \in chosen }
        content(p) == PoolFileList[CHOOSE i \in chosen : PoolFileList[i][1] = p][2]
    IN  [p \in P \cup Ancestors(P) \cup {<<"data">>} |->
            IF p \in P THEN File(content(p)) ELSE Dir]

PoolIdle == [pc |-> "idle"]

PoolInit ==
    /\ parser = ParserIdle
    /\ \E chosen \in SUBSET (1..Min(MaxPoolFiles, Len(PoolFileList))) :
          fs = PoolTree(chosen)
    /\ \E processes \in 1..MaxProcesses, tasks \in Orders(walk(fs, <<"data">>)) :
          pool = [pc |-> "map", processes |-> processes, tasks |-> tasks,
                  running |-> [w \in 1..processes |-> 0], results |-> <<>>,
                  map_result |-> <<>>, num_files |-> 0, total_bytes |-> 0,
                  manifest |-> <<>>, Oxum |-> None]
    /\ build = [pc |-> "idle"]
    /\ bag = [open |-> FALSE]
    /\ val = [pc |-> "idle"]
    /\ edits = 0

PoolTaken(pl) == (DOMAIN pl.results) \cup { pl.running[w] : w \in DOMAIN pl.running }

\* pool.map blocks until every task has its result
PoolJoinedEarly(pl) == (1..Len(pl.tasks)) \subseteq PoolTaken(pl)

PoolJoined(pl) == DOMAIN pl.results = 1..Len(pl.tasks)

\* an idle worker takes a task
PoolTake(w, i) ==
    /\ pool.pc = "map"
    /\ pool.running[w] = 0
    /\ i \notin PoolTaken(pool)
    /\ pool' = [pool EXCEPT !.running[w] = i]
    /\ UNCHANGED <<parser, fs, build, bag, val, edits>>

\* a worker finishes _manifest_line on its task
PoolFinish(w) ==
    /\ pool.pc = "map"
    /\ pool.running[w] # 0
    /\ LET i == pool.running[w]
       IN  pool' = [pool EXCEPT
               !.running[w] = 0,
               !.results = [k \in (DOMAIN @) \cup {i} |->
                               IF k = i THEN manifest_line(fs, pool.tasks[i]) ELSE @[k]]]
    /\ UNCHANGED <<parser, fs, build, bag, val, edits>>

\* pool.map returns the list of the results, in task order
PoolMapReturn ==
    /\ pool.pc = "map"
    /\ PoolJoined(pool)
    /\ pool' = [pool EXCEPT
           !.pc = "loop",
           !.map_result = LET have == { i \in 1..Len(pool.tasks) : i \in DOMAIN pool.results }
                              nth(k) == CHOOSE i \in have :
                                            Cardinality({ j \in have : j < i }) = k - 1
                          IN  [k \in 1..Cardinality(have) |-> pool.results[nth(k)]]]
    /\ UNCHANGED <<parser, fs, build, bag, val, edits>>

\* one iteration of the for loop: count the file, add its bytes, write its line
ManifestWrite ==
    /\ pool.pc = "loop"
    /\ pool.num_files < Len(pool.map_result)
    /\ LET r == pool.map_result[pool.num_files + 1]
       IN  pool' = [pool EXCEPT
               !.num_files = @ + 1,
               !.total_bytes = @ + r.bytes,
               !.manifest = Append(@, [digest |-> r.digest, filename |-> r.filename])]
    /\ UNCHANGED <<parser, fs, build, bag, val, edits>>

\* the loop is over: return "%s.%s" % (total_bytes, num_files)
ManifestReturn ==
    /\ pool.pc = "loop"
    /\ pool.num_files = Len(pool.map_result)
    /\ pool' = [pool EXCEPT !.pc = "done",
                            !.Oxum = Some(format_oxum(pool.total_bytes, pool.num_files))]
    /\ UNCHANGED <<parser, fs, build, bag, val, edits>>

PoolNext ==
    \/ \E w \in DOMAIN pool.running, i \in 1..Len(pool.tasks) : PoolTake(w, i)
    \/ \E w \in DOMAIN pool.running : PoolFinish(w)
    \/ PoolMapReturn
    \/ ManifestWrite
    \/ ManifestReturn

SpecPool == PoolInit /\ [][PoolNext]_vars

\* the payload's true totals, from the file system alone
RECURSIVE SumSizes(_, _)
SumSizes(fsys, P) ==
    IF P = {} THEN 0
    ELSE LET p == CHOOSE q \in P : TRUE
         IN  Len(fsys[p].content) + SumSizes(fsys, P \ {p})

PayloadBytes(fsys) == SumSizes(fsys, walk(fsys, <<"data">>))

PayloadCount(fsys) == Cardinality(walk(fsys, <<"data">>))

\* decimal digits back to a number
RECURSIVE DigitsValue(_)
DigitsValue(s) ==
    IF s = <<>> THEN 0
    ELSE 10 * DigitsValue(SubSeq(s, 1, Len(s) - 1))
         + (CHOOSE d \in 0..9 : DigitChars[d + 1] = s[Len(s)])

\* C3: whatever the pool size and the order in which the tasks complete, the
\* manifest and the Oxum are produced only once every task has finished, and
\* the Oxum returned is "<bytes>.<count>" for the payload's true byte total
\* and file count; 'hello' and 'world!' give "11.2".
C3_OxumExactAfterBarrier ==
    /\ (pool.pc \in {"loop", "done"} \/ pool.manifest # <<>> \/ pool.Oxum # None)
          => /\ DOMAIN pool.results = 1..Len(pool.tasks)
             /\ \A w \in DOMAIN pool.running : pool.running[w] = 0
    /\ pool.pc = "done"
          => /\ pool.Oxum # None
             /\ LET parts == split1(pool.Oxum[1], ".")
                IN  /\ Len(parts) = 2
                    /\ DigitsValue(parts[1]) = PayloadBytes(fs)
                    /\ DigitsValue(parts[2]) = PayloadCount(fs)
             /\ pool.Oxum[1] = format_oxum(PayloadBytes(fs), PayloadCount(fs))
             /\ { l.filename : l \in { pool.manifest[k] : k \in 1..Len(pool.manifest) } }
                    = walk(fs, <<"data">>)
             /\ Len(pool.manifest) = PayloadCount(fs)
             /\ (walk(fs, <<"data">>) = {<<"data", "a.txt">>, <<"data", "b", "b.txt">>}
                    => pool.Oxum[1] = <<"1", "1", ".", "2">>)

\* two workers were busy at once, the tasks completed out of order, and the
\* Oxum of 'hello' and 'world!' was returned
C3_Witness ==
    /\ pool.pc = "done"
    /\ pool.processes > 1
    /\ walk(fs, <<"data">>) = {<<"data", "a.txt">>, <<"data", "b", "b.txt">>}
    /\ pool.Oxum = Some(<<"1", "1", ".", "2">>)

\* the stepwise run and make_manifest agree
PoolStepwiseAgrees ==
    pool.pc = "done" =>
        /\ pool.manifest = make_manifest(fs, pool.tasks).manifest
        /\ pool.Oxum = Some(make_manifest(fs, pool.tasks).Oxum)

(***************************************************************************)
(* Text files: reading by lines, paths written as text, manifest lines.    *)
(***************************************************************************)
\* `for line in file`: the lines, each with its "\n"
RECURSIVE readlines(_)
readlines(text) ==
    IF text = <<>> THEN <<>>
    ELSE LET k == Find(text, "\n")
         IN  IF k = 0 THEN <<text>>
             ELSE <<SubSeq(text, 1, k)>> \o readlines(SubSeq(text, k + 1, Len(text)))

\* a path as the text os.path.join builds: its components with "/" between
RECURSIVE path_text(_)
path_text(p) ==
    IF Len(p) <= 1 THEN p ELSE <<Head(p), "/">> \o path_text(Tail(p))

\* os.path.normpath of a relative path, as components: empty and "."
\* components are dropped, ".." drops the component before it
RECURSIVE normpath_from(_, _)
normpath_from(done, text) ==
    IF text = <<>> THEN done
    ELSE LET parts == split1(text, "/")
             c == parts[1]
             rest == IF Len(parts) = 2 THEN parts[2] ELSE <<>>
             next == IF c = <<>> \/ c = <<".">> THEN done
                     ELSE IF c = <<"..">> /\ done # <<>> /\ done[Len(done)] # ".."
                          THEN SubSeq(done, 1, Len(done) - 1)
                     ELSE done \o c
         IN  normpath_from(next, rest)

normpath(text) == normpath_from(<<>>, text)

\* str.split(None, 1) of a stripped line: the first word and the rest
split_ws1(s) ==
    IF \E i \in 1..Len(s) : IsSpace(s[i])
    THEN LET k == CHOOSE i \in 1..Len(s) :
                      IsSpace(s[i]) /\ \A j \in 1..(i - 1) : ~IsSpace(s[j])
         IN  <<SubSeq(s, 1, k - 1), lstrip(SubSeq(s, k + 1, Len(s)))>>
    ELSE <<s>>

\* str.lstrip("*")
RECURSIVE lstrip_star(_)
lstrip_star(s) == IF s # <<>> /\ Head(s) = "*" THEN lstrip_star(Tail(s)) ELSE s

\* "%s  %s\n" % (digest, filename)
manifest_text_line(l) == l.digest \o <<" ", " ">> \o path_text(l.filename) \o <<"\n">>

RECURSIVE manifest_text(_)
manifest_text(ls) ==
    IF ls = <<>> THEN <<>> ELSE manifest_text_line(Head(ls)) \o manifest_text(Tail(ls))

(***************************************************************************)
(* The names the module knows.                                             *)
(***************************************************************************)
checksum_algos == <<"md5", "sha1">>

\* "manifest-%s.txt" % a, for the algorithm names of the model
ManifestNames ==
    [md5 |-> "manifest-md5.txt", sha1 |-> "manifest-sha1.txt",
     sha256 |-> "manifest-sha256.txt", crc9 |-> "manifest-crc9.txt"]

\* "tagmanifest-%s.txt" % a
TagManifestNames ==
    [md5 |-> "tagmanifest-md5.txt", sha1 |-> "tagmanifest-sha1.txt",
     sha256 |-> "tagmanifest-sha256.txt", crc9 |-> "tagmanifest-crc9.txt"]

AlgNames == DOMAIN ManifestNames

\* Bag.valid_files, Bag.valid_directories
valid_files == {"bagit.txt", "fetch.txt"}

valid_directories == {"data"}

\* Bag.manifest_files: the algorithms of checksum_algos whose manifest is a file
manifest_files(fsys) ==
    SelectSeq(checksum_algos, LAMBDA a : isfile(fsys, <<ManifestNames[a]>>))

\* Bag.tagmanifest_files
tagmanifest_files(fsys) ==
    SelectSeq(checksum_algos, LAMBDA a : isfile(fsys, <<TagManifestNames[a]>>))

Range(f) == { f[x] : x \in DOMAIN f }

\* str.lower(), on the encodings of the model
LowerChar(c) == IF c \in {"UTF-8", "Utf-8"} THEN "utf-8" ELSE c

lower(s) == [i \in 1..Len(s) |-> LowerChar(s[i])]

(***************************************************************************)
(* Bag._load_manifests                                                     *)
(***************************************************************************)
\* one line of the manifest of `alg` added to entries
load_manifest_line(entries, alg, rawline) ==
    LET line == strip(rawline)
        entry == split_ws1(line)
    IN  IF line = <<>> \/ Head(line) = "#" THEN entries
        ELSE IF Len(entry) # 2 THEN entries
        ELSE LET entry_hash == entry[1]
                 entry_path == normpath(lstrip_star(entry[2]))
                 old == IF entry_path \in DOMAIN entries THEN entries[entry_path] ELSE <<>>
                 new == [a \in (DOMAIN old) \cup {alg} |->
                            IF a = alg THEN entry_hash ELSE old[a]]
             IN  [q \in (DOMAIN entries) \cup {entry_path} |->
                     IF q = entry_path THEN new ELSE entries[q]]

RECURSIVE load_manifest_lines(_, _, _)
load_manifest_lines(entries, alg, lines) ==
    IF lines = <<>> THEN entries
    ELSE load_manifest_lines(load_manifest_line(entries, alg, Head(lines)), alg, Tail(lines))

RECURSIVE load_manifests_from(_, _, _)
load_manifests_from(fsys, algs, entries) ==
    IF algs = <<>> THEN entries
    ELSE load_manifests_from(fsys, Tail(algs),
            load_manifest_lines(entries, Head(algs),
                readlines(fsys[<<ManifestNames[Head(algs)]>>].content)))

\* self.algs and self.entries after _load_manifests
load_manifests(fsys) ==
    [algs |-> manifest_files(fsys),
     entries |-> load_manifests_from(fsys, manifest_files(fsys), <<>>)]

(***************************************************************************)
(* Bag.__init__ and Bag._open: the Bag, or the exception raised.           *)
(***************************************************************************)
Raised(e) == [open |-> FALSE, err |-> e]

tag_file_name_of(version) ==
    IF version = <<"0.95">> THEN Some("package-info.txt")
    ELSE IF version = <<"0.96">> THEN Some("bag-info.txt")
    ELSE None

open_bag(fsys) ==
    IF ~isfile(fsys, <<"bagit.txt">>) THEN Raised("BagError: No bagit.txt found")
    ELSE
    LET t == load_tag_file(readlines(fsys[<<"bagit.txt">>].content))
    IN  IF t.err # "" THEN Raised(t.err)
        ELSE IF ~({<<"BagIt-Version">>, <<"Tag-File-Character-Encoding">>}
                     \subseteq DOMAIN t.tags)
        THEN Raised("BagError: Missing required tag in bagit.txt")
        ELSE
    LET version == t.tags[<<"BagIt-Version">>]
        encoding == t.tags[<<"Tag-File-Character-Encoding">>]
        tfn == tag_file_name_of(version)
    IN  IF tfn = None THEN Raised("BagError: Unsupported bag version")
        ELSE IF lower(encoding) # <<"utf-8">>
        THEN Raised("BagValidationError: Unsupported encoding")
        ELSE
    LET info_file_path == <<tfn[1]>>
        i == IF ~exists(fsys, info_file_path) THEN [err |-> "", tags |-> <<>>]
             ELSE IF ~isfile(fsys, info_file_path) THEN [err |-> "IOError", tags |-> <<>>]
             ELSE load_tag_file(readlines(fsys[info_file_path].content))
        m == load_manifests(fsys)
    IN  IF i.err # "" THEN Raised(i.err)
        ELSE [open |-> TRUE, err |-> "", tags |-> t.tags, version |-> version,
              encoding |-> encoding, tag_file_name |-> tfn[1],
              info |-> IF exists(fsys, info_file_path) THEN Some(i.tags) ELSE None,
              algs |-> m.algs, entries |-> m.entries, fresh |-> TRUE]

(***************************************************************************)
(* Bag.validate: the checks, each giving "" or the exception it raises.    *)
(***************************************************************************)
\* os.listdir(self.path)
listdir(fsys) == { p[1] : p \in { q \in DOMAIN fsys : Len(q) = 1 } }

\* valid_files of _validate_structure_tag_files
structure_valid_files(fsys) ==
    valid_files
      \cup { ManifestNames[a] : a \in Range(manifest_files(fsys)) }
      \cup { TagManifestNames[a] : a \in Range(tagmanifest_files(fsys)) }

\* the body of the loop over os.listdir for one name
structure_error(b, fsys, name) ==
    IF isdir(fsys, <<name>>)
    THEN IF name \notin valid_directories
         THEN "BagValidationError: Extra directory found" ELSE ""
    ELSE IF isfile(fsys, <<name>>)
    THEN IF name \notin structure_valid_files(fsys) /\ name # b.tag_file_name
         THEN "BagValidationError: Extra tag file found" ELSE ""
    ELSE "BagValidationError: Unknown item in bag"

StructureErrors ==
    { "BagValidationError: Missing data directory.",
      "BagValidationError: Extra directory found",
      "BagValidationError: Extra tag file found",
      "BagValidationError: Unknown item in bag" }

\* str.isdigit()
isdigit(s) == s # <<>> /\ \A i \in 1..Len(s) : s[i] \in Range(DigitChars)

\* long(s) of a string of digits
RECURSIVE long(_)
long(s) ==
    IF s = <<>> THEN 0
    ELSE 10 * long(SubSeq(s, 1, Len(s) - 1))
         + ((CHOOSE k \in 1..10 : DigitChars[k] = s[Len(s)]) - 1)

\* the totals _validate_oxum finds on disk
RECURSIVE total_size(_, _)
total_size(fsys, P) ==
    IF P = {} THEN 0
    ELSE LET q == CHOOSE x \in P : TRUE
         IN  st_size(fsys, q) + total_size(fsys, P \ {q})

\* Bag._validate_oxum
validate_oxum(b, fsys) ==
    LET oxum == get(b.tags, <<"Payload-Oxum">>)
    IN  IF oxum = None THEN ""
        ELSE LET parts == split1(oxum[1], ".")
             IN  IF Len(parts) < 2 THEN "ValueError: need more than 1 value to unpack"
                 ELSE IF ~isdigit(parts[1]) \/ ~isdigit(parts[2])
                 THEN "BagError: Invalid oxum"
                 ELSE LET payload == walk(fsys, <<"data">>)
                          total_bytes == total_size(fsys, payload)
                          total_files == Cardinality(payload)
                      IN  IF long(parts[2]) # total_files \/ long(parts[1]) # total_bytes
                          THEN "BagError: Oxum error" ELSE ""

\* the read loop of _calculate_file_hashes: every hash object is fed each block
RECURSIVE read_update(_, _)
read_update(rest, f_hashers) ==
    LET block == SubSeq(rest, 1, Min(ValidateBlock, Len(rest)))
    IN  IF block = <<>> THEN f_hashers
        ELSE read_update(SubSeq(rest, Len(block) + 1, Len(rest)),
                         [a \in DOMAIN f_hashers |-> update(f_hashers[a], block)])

\* the same without the test that the file exists: a missing file reads as empty
calculate_file_hashes_unchecked(fsys, full_path, f_hashers) ==
    LET hs == read_update(IF isfile(fsys, full_path) THEN fsys[full_path].content ELSE <<>>,
                          f_hashers)
    IN  [err |-> "", hashers |-> hs, f_hashes |-> [a \in DOMAIN hs |-> hexdigest(hs[a])]]

\* Bag._calculate_file_hashes: the exception, or the hash objects as the reads
\* left them and the digests returned
calculate_file_hashes(fsys, full_path, f_hashers) ==
    IF ~exists(fsys, full_path)
    THEN [err |-> "BagValidationError: does not exist", hashers |-> f_hashers,
          f_hashes |-> <<>>]
    ELSE IF ~isfile(fsys, full_path)
    THEN [err |-> "IOError", hashers |-> f_hashers, f_hashes |-> <<>>]
    ELSE LET hs == read_update(fsys[full_path].content, f_hashers)
         IN  [err |-> "", hashers |-> hs,
              f_hashes |-> [a \in DOMAIN hs |-> hexdigest(hs[a])]]

\* `for alg, stored_hash in f_hashes.items(): computed_hash = f_hashes[alg]`:
\* both sides of the comparison are read from f_hashes
entry_errors(full_path, hashes, f_hashes) ==
    { <<full_path, alg>> : alg \in
        { a \in DOMAIN f_hashes :
            LET stored_hash == f_hashes[a]
                computed_hash == f_hashes[a]
            IN  stored_hash # computed_hash } }

\* the same with the test dropped
no_hashers_unchecked(hashers) == FALSE

\* `if not hashers`
no_hashers(hashers) == DOMAIN hashers = {}

(***************************************************************************)
(* Spec: a directory is bagged by make_bag, then edited from outside,      *)
(* opened and validated.                                                   *)
(***************************************************************************)
\* the most events from outside the program (edits of the directory between
\* calls, I/O failures during make_bag) in one behaviour
MaxEdits == 2

\* the files of `F`, a set of <<path, content>>, and the directories above them
Tree(F) ==
    LET P == { f[1] : f \in F }
    IN  [p \in P \cup Ancestors(P) |->
            IF p \in P THEN File((CHOOSE f \in F : f[1] = p)[2]) ELSE Dir]

\* the text make_bag writes to bagit.txt
bagit_txt ==
    <<"BagIt-Version", ":", " ", "0.96", "\n",
      "Tag-File-Character-Encoding", ":", " ", "UTF-8", "\n">>

\* the directories make_bag is given
SourceDirs ==
    { Tree({}),
      Tree({ <<<<"a.txt">>, hello>> }),
      Tree({ <<<<"a.txt">>, hello>>, <<<<"b", "b.txt">>, world>> }),
      Tree({ <<<<"data", "x">>, <<"x">>>> }),
      Tree({ <<<<"a.txt">>, hello>>, <<<<"data">>, <<"d">>>> }),
      Tree({ <<<<"a.txt">>, hello>>, <<<<"bagit.txt">>, bagit_txt>> }) }

\* date.strftime(date.today(), "%Y-%m-%d")
Today == <<"2010-12-31">>

\* headers.sort(), for the headers of the model
SortedHeaders == <<"Bagging-Date", "Payload-Oxum">>

\* the lines written to bag-info.txt
bag_info_lines(bag_info) ==
    LET headers == SelectSeq(SortedHeaders, LAMBDA h : h \in DOMAIN bag_info)
    IN  [i \in 1..Len(headers) |->
            <<headers[i], ":", " ">> \o bag_info[headers[i]] \o <<"\n">>]

RECURSIVE concat(_)
concat(ls) == IF ls = <<>> THEN <<>> ELSE Head(ls) \o concat(Tail(ls))

\* fsys with the file p written
write(fsys, p, content) ==
    [q \in (DOMAIN fsys) \cup {p} |-> IF q = p THEN File(content) ELSE fsys[q]]

\* fsys without p and everything below it
remove(fsys, p) ==
    [q \in { r \in DOMAIN fsys : ~IsPrefix(p, r) } |-> fsys[q]]

\* os.rename(f, os.path.join('data', f))
rename_into_data(fsys, f) ==
    LET moved == { q \in DOMAIN fsys : q[1] = f }
    IN  [q \in ((DOMAIN fsys) \ moved) \cup { <<"data">> \o r : r \in moved } |->
            IF Len(q) >= 2 /\ q[1] = "data" /\ q[2] = f THEN fsys[Tail(q)] ELSE fsys[q]]

ValStart ==
    [pc |-> "idle", result |-> "", hashers |-> <<>>, todo |-> {}, errors |-> {},
     f_hashes |-> <<>>, rel_path |-> None]

Init ==
    /\ parser = ParserIdle
    /\ pool = PoolIdle
    /\ fs \in SourceDirs
    /\ build = [pc |-> "mkdir", todo |-> {}, Oxum |-> None, before |-> fs, failed |-> ""]
    /\ bag = Raised("")
    /\ val = ValStart
    /\ edits = 0

\* os.mkdir('data'), then os.listdir('.'); OSError when data exists
MkDir ==
    /\ build.pc = "mkdir"
    /\ IF exists(fs, <<"data">>)
       THEN /\ build' = [build EXCEPT !.pc = "return", !.failed = "mkdir"]
            /\ fs' = fs
       ELSE /\ fs' = [q \in (DOMAIN fs) \cup {<<"data">>} |->
                         IF q = <<"data">> THEN Dir ELSE fs[q]]
            /\ build' = [build EXCEPT !.pc = "rename", !.todo = listdir(fs')]
    /\ UNCHANGED <<parser, pool, bag, val, edits>>

\* one iteration of the loop over the listing, in any order
Rename(f) ==
    /\ build.pc = "rename"
    /\ f \in build.todo
    /\ fs' = IF f = "data" THEN fs ELSE rename_into_data(fs, f)
    /\ build' = [build EXCEPT !.todo = @ \ {f},
                              !.pc = IF build.todo = {f} THEN "manifest" ELSE "rename"]
    /\ UNCHANGED <<parser, pool, bag, val, edits>>

\* Oxum = _make_manifest('manifest-md5.txt', 'data', processes)
WriteManifest ==
    /\ build.pc = "manifest"
    /\ \E order \in Orders(walk(fs, <<"data">>)) :
          LET r == make_manifest(fs, order)
          IN  /\ fs' = write(fs, <<"manifest-md5.txt">>, manifest_text(r.manifest))
              /\ build' = [build EXCEPT !.pc = "bagit", !.Oxum = Some(r.Oxum)]
    /\ UNCHANGED <<parser, pool, bag, val, edits>>

\* open("bagit.txt", "w").write(txt)
WriteBagit ==
    /\ build.pc = "bagit"
    /\ fs' = write(fs, <<"bagit.txt">>, bagit_txt)
    /\ build' = [build EXCEPT !.pc = "baginfo"]
    /\ UNCHANGED <<parser, pool, bag, val, edits>>

\* bag_info as make_bag fills it when called with bag_info=None
bag_info_of(Oxum) ==
    [h \in {"Bagging-Date", "Payload-Oxum"} |->
        IF h = "Bagging-Date" THEN Today ELSE Oxum]

\* bag-info.txt is written, one line per header
WriteBagInfo ==
    /\ build.pc = "baginfo"
    /\ fs' = write(fs, <<"bag-info.txt">>,
                   concat(bag_info_lines(bag_info_of(build.Oxum[1]))))
    /\ build' = [build EXCEPT !.pc = "return"]
    /\ UNCHANGED <<parser, pool, bag, val, edits>>

\* what a step of make_bag may leave behind when its system call fails
FaultOutcomes(pc) ==
    IF pc = "manifest"
    THEN {fs, write(fs, <<"manifest-md5.txt">>, <<>>)}
    ELSE IF pc = "bagit"
    THEN {fs, write(fs, <<"bagit.txt">>, <<>>)}
    ELSE IF pc = "baginfo"
    THEN {fs} \cup
         { write(fs, <<"bag-info.txt">>,
                 concat(SubSeq(bag_info_lines(bag_info_of(build.Oxum[1])), 1, k))) :
           k \in 0..(Len(bag_info_lines(bag_info_of(build.Oxum[1]))) - 1) }
    ELSE {fs}

\* a system call of make_bag raises (no permission, disk full, ...):
\* `except Exception, e: logging.error(e)`
MakeBagFault ==
    /\ build.pc \in {"mkdir", "rename", "manifest", "bagit", "baginfo"}
    /\ build.pc = "rename" => build.todo \ {"data"} # {}
    /\ edits < MaxEdits
    /\ edits' = edits + 1
    /\ fs' \in FaultOutcomes(build.pc)
    /\ build' = [build EXCEPT !.pc = "return", !.failed = build.pc]
    /\ UNCHANGED <<parser, pool, bag, val>>

\* `return Bag(bag_dir)`
ReturnBag ==
    /\ build.pc = "return"
    /\ bag' = open_bag(fs)
    /\ build' = [build EXCEPT !.pc = IF bag'.open THEN "returned" ELSE "raised"]
    /\ UNCHANGED <<parser, pool, fs, val, edits>>

(***************************************************************************)
(* The directory is edited from outside, between the calls of the program. *)
(***************************************************************************)
Quiet == build.pc \in {"returned", "raised"} /\ val.pc \in {"idle", "done"}

\* an edit: the Bag in memory no longer matches the disk, and the result of
\* the last validate() has been delivered
Edited(newfs) ==
    /\ Quiet
    /\ edits < MaxEdits
    /\ edits' = edits + 1
    /\ fs' = newfs
    /\ bag' = IF bag.open THEN [bag EXCEPT !.fresh = FALSE] ELSE bag
    /\ val' = ValStart
    /\ UNCHANGED <<parser, pool, build>>

\* one byte of a payload file is changed
TamperPayload(p) ==
    /\ isfile(fs, p)
    /\ fs[p].content # <<>>
    /\ Head(fs[p].content) # "j"
    /\ Edited(write(fs, p, <<"j">> \o Tail(fs[p].content)))

\* a payload file is deleted
RemovePayload(p) == Edited(remove(fs, p))

\* a file is added to the payload
AddPayload ==
    /\ isdir(fs, <<"data">>)
    /\ ~exists(fs, <<"data", "new">>)
    /\ Edited(write(fs, <<"data", "new">>, <<"n">>))

\* a manifest for another algorithm, as a tool would write it for the payload
foreign_manifest(fsys, alg) ==
    LET order == CHOOSE o \in Orders({ q \in walk(fsys, <<"data">>) : isfile(fsys, q) }) : TRUE
    IN  manifest_text([i \in 1..Len(order) |->
            [digest |-> hexdigest(update(hashlib_new(alg), fsys[order[i]].content)),
             filename |-> order[i]]])

\* the entries that may be added to the bag's root
RootExtras(fsys) ==
    [name \in {"extra.txt", "extra", "fifo", "fetch.txt", "tagmanifest-md5.txt",
               "manifest-sha1.txt", "manifest-sha256.txt", "manifest-crc9.txt"} |->
        IF name = "extra" THEN Dir
        ELSE IF name = "fifo" THEN Other
        ELSE IF name = "manifest-sha1.txt" THEN File(foreign_manifest(fsys, "sha1"))
        ELSE IF name = "manifest-sha256.txt" THEN File(foreign_manifest(fsys, "sha256"))
        ELSE IF name = "manifest-crc9.txt" THEN File(foreign_manifest(fsys, "crc9"))
        ELSE File(<<>>)]

AddRootEntry(name) ==
    /\ ~exists(fs, <<name>>)
    /\ Edited([q \in (DOMAIN fs) \cup {<<name>>} |->
                  IF q = <<name>> THEN RootExtras(fs)[name] ELSE fs[q]])

RemoveRootEntry(name) == Edited(remove(fs, <<name>>))

\* the bagit.txt files a bag may be given by hand
BagitVariants(fsys) ==
    LET oxum(v) == <<"Payload-Oxum", ":", " ">> \o v \o <<"\n">>
        decl(version, enc) ==
            <<"BagIt-Version", ":", " ", version, "\n">> \o
            (IF enc = "" THEN <<>>
             ELSE <<"Tag-File-Character-Encoding", ":", " ", enc, "\n">>)
        payload == walk(fsys, <<"data">>)
    IN  { bagit_txt \o oxum(format_oxum(total_size(fsys, payload), Cardinality(payload))),
          bagit_txt \o oxum(<<"x", ".", "1">>),
          bagit_txt \o oxum(<<"5">>),
          decl("0.95", "Utf-8"),
          decl("0.97", "UTF-8"),
          decl("0.96", "Latin-1"),
          decl("0.96", ""),
          <<" ", "folded", "\n">> \o bagit_txt,
          <<"nocolon", "\n">> \o bagit_txt }

WriteBagitTxt(text) == Edited(write(fs, <<"bagit.txt">>, text))

(***************************************************************************)
(* Bag(path) and bag.validate()                                            *)
(***************************************************************************)
\* the caller opens the directory as a Bag
Open ==
    /\ Quiet
    /\ bag' = open_bag(fs)
    /\ val' = ValStart
    /\ UNCHANGED <<parser, pool, fs, build, edits>>

Done(result) == [val EXCEPT !.pc = "done", !.result = result]

\* validate() is called: _validate_structure
ValidateStructure ==
    /\ Quiet
    /\ bag.open
    /\ IF ~isdir(fs, <<"data">>)
       THEN val' = [ValStart EXCEPT !.pc = "done",
                                    !.result = "BagValidationError: Missing data directory."]
       ELSE LET bad == { n \in listdir(fs) : structure_error(bag, fs, n) # "" }
            IN  IF bad = {} THEN val' = [ValStart EXCEPT !.pc = "oxum"]
                ELSE \E n \in bad :
                        val' = [ValStart EXCEPT !.pc = "done",
                                                !.result = structure_error(bag, fs, n)]
    /\ UNCHANGED <<parser, pool, fs, build, bag, edits>>

\* _validate_oxum
ValidateOxum ==
    /\ val.pc = "oxum"
    /\ val' = IF validate_oxum(bag, fs) = "" THEN [val EXCEPT !.pc = "entries"]
              ELSE Done(validate_oxum(bag, fs))
    /\ UNCHANGED <<parser, pool, fs, build, bag, edits>>

\* _validate_entries up to its loop: the dictionary of hash objects
ValidateEntriesStart ==
    /\ val.pc = "entries"
    /\ LET algs == Range(bag.algs)
           hashers == [a \in algs |-> hashlib_new(a)]
       IN  val' = IF algs \ HashlibAlgos # {}
                  THEN Done("ValueError: unsupported hash type")
                  ELSE IF no_hashers(hashers)
                  THEN Done("RuntimeError: none of the hash algorithms are supported")
                  ELSE [val EXCEPT !.pc = "loop", !.hashers = hashers,
                                   !.todo = DOMAIN bag.entries]
    /\ UNCHANGED <<parser, pool, fs, build, bag, edits>>

\* one iteration of `for rel_path, hashes in self.entries.items()`.  The
\* clones f_hashers are made and not used: _calculate_file_hashes is handed
\* hashers itself, which its updates change.
ValidateEntry(rel_path) ==
    /\ val.pc = "loop"
    /\ rel_path \in val.todo
    /\ LET hashes == bag.entries[rel_path]
           r == calculate_file_hashes(fs, rel_path, val.hashers)
       IN  val' = IF r.err # "" THEN Done(r.err)
                  ELSE [val EXCEPT !.hashers = r.hashers,
                                   !.f_hashes = r.f_hashes,
                                   !.rel_path = Some(rel_path),
                                   !.todo = @ \ {rel_path},
                                   !.errors = @ \cup entry_errors(rel_path, hashes, r.f_hashes)]
    /\ UNCHANGED <<parser, pool, fs, build, bag, edits>>

\* after the loop: the aggregated failure, or validate() returns True
ValidateEntriesEnd ==
    /\ val.pc = "loop"
    /\ val.todo = {}
    /\ val' = IF val.errors # {}
              THEN Done("BagValidationError: files failed checksum validation")
              ELSE Done("True")
    /\ UNCHANGED <<parser, pool, fs, build, bag, edits>>

Next ==
    \/ MkDir
    \/ \E f \in build.todo : Rename(f)
    \/ WriteManifest
    \/ WriteBagit
    \/ WriteBagInfo
    \/ MakeBagFault
    \/ ReturnBag
    \/ \E p \in walk(fs, <<"data">>) : TamperPayload(p)
    \/ \E p \in walk(fs, <<"data">>) : RemovePayload(p)
    \/ AddPayload
    \/ \E name \in DOMAIN RootExtras(fs) : AddRootEntry(name)
    \/ \E name \in listdir(fs) : RemoveRootEntry(name)
    \/ \E text \in BagitVariants(fs) : WriteBagitTxt(text)
    \/ Open
    \/ ValidateStructure
    \/ ValidateOxum
    \/ ValidateEntriesStart
    \/ \E rel_path \in val.todo : ValidateEntry(rel_path)
    \/ ValidateEntriesEnd

Spec == Init /\ [][Next]_vars

(***************************************************************************)
(* The claims about Spec.                                                  *)
(***************************************************************************)
ChecksumFailure == "BagValidationError: files failed checksum validation"

MissingPayload == "BagValidationError: does not exist"

OxumErrors ==
    { "ValueError: need more than 1 value to unpack", "BagError: Invalid oxum",
      "BagError: Oxum error" }

\* the digest of a file's bytes alone, from a fresh hash object
FreshDigest(alg, content) == hexdigest(update(hashlib_new(alg), content))

\* the (path, algorithm) pairs whose file is there with another digest than
\* the manifest's
Mismatches ==
    { pa \in UNION { { <<q, a>> : a \in DOMAIN bag.entries[q] } : q \in DOMAIN bag.entries } :
        /\ pa[2] \in HashlibAlgos
        /\ isfile(fs, pa[1])
        /\ FreshDigest(pa[2], fs[pa[1]].content) # bag.entries[pa[1]][pa[2]] }

\* the manifest paths that are not on disk
MissingEntries == { q \in DOMAIN bag.entries : ~exists(fs, q) }

\* C1: for every non-empty directory, an entry named 'data' included, make_bag
\* followed by validate() on the Bag it returns succeeds (nothing from outside
\* touches the directory and no system call fails: edits = 0).
C1_RoundTripSucceeds ==
    (edits = 0 /\ listdir(build.before) # {})
        => /\ build.pc # "raised"
           /\ val.pc = "done" => val.result = "True"

\* C2: when validate() has run, it succeeds only if no (path, algorithm) pair
\* has a digest that differs from the manifest's, and the aggregated checksum
\* failure lists exactly those pairs.
C2_HashCheckExact ==
    val.pc = "done"
        => /\ val.result = "True" => Mismatches = {}
           /\ val.result = ChecksumFailure => val.errors = Mismatches

\* the root the claim C4 calls legal
LegalRoot(b, fsys) ==
    /\ isdir(fsys, <<"data">>)
    /\ \A name \in listdir(fsys) :
          \/ isdir(fsys, <<name>>) /\ name = "data"
          \/ /\ isfile(fsys, <<name>>)
             /\ \/ name \in {"bagit.txt", "fetch.txt", b.tag_file_name}
                \/ \E a \in AlgNames : name \in {ManifestNames[a], TagManifestNames[a]}

\* C4: the structural check accepts the root if and only if data is a
\* directory and every child is bagit.txt, fetch.txt, the descriptive tag
\* file, a manifest-<alg>.txt or tagmanifest-<alg>.txt file of any algorithm
\* present, or the directory data.
C4_StructureAcceptsLegalRoots ==
    val.pc # "idle" => ((val.result \notin StructureErrors) <=> LegalRoot(bag, fs))

\* the Oxum the descriptive tag file records differs from the payload on disk
RecordedOxumDiffers ==
    /\ bag.info # None
    /\ <<"Payload-Oxum">> \in DOMAIN bag.info[1]
    /\ LET parts == split1(bag.info[1][<<"Payload-Oxum">>], ".")
       IN  /\ Len(parts) = 2
           /\ isdigit(parts[1]) /\ isdigit(parts[2])
           /\ \/ DigitsValue(parts[1]) # total_size(fs, walk(fs, <<"data">>))
              \/ DigitsValue(parts[2]) # Cardinality(walk(fs, <<"data">>))

\* C5: when the descriptive tag file records a Payload-Oxum and the payload's
\* byte total or file count differs from it, validate() never succeeds.
C5_OxumMismatchFatal ==
    (val.pc = "done" /\ RecordedOxumDiffers) => val.result # "True"

\* C6: when a path recorded in a manifest does not exist, validate() fails,
\* never with the aggregated checksum failure; once the structure and Oxum
\* checks have passed it fails with the missing-payload error, whatever the
\* other entries are and in whatever order they are visited.
C6_MissingPayloadFatal ==
    (val.pc = "done" /\ MissingEntries # {})
        => /\ val.result \notin {"True", ChecksumFailure}
           /\ val.result \notin (StructureErrors \cup OxumErrors)
                 => val.result = MissingPayload

\* a manifest path is missing while another entry, already visited, has a
\* digest that differs from the manifest's, and validate() has raised the
\* missing-payload error
C6_Witness ==
    /\ val.pc = "done"
    /\ val.result = MissingPayload
    /\ MissingEntries # {}
    /\ val.rel_path # None
    /\ \E pa \in Mismatches : pa[1] = val.rel_path[1]

\* the algorithms with a manifest file in the bag's root
ManifestsOnDisk == { a \in AlgNames : isfile(fs, <<ManifestNames[a]>>) }

\* C7: when none of the algorithms the bag's manifests record can be computed
\* (the only manifest is for an unknown algorithm, or there is no manifest),
\* validate() never returns True.
C7_NoUsableAlgorithmFatal ==
    val.pc = "done"
        => /\ Range(bag.algs) \cap HashlibAlgos = {} => val.result # "True"
           /\ (bag.fresh /\ ManifestsOnDisk \cap HashlibAlgos = {}) => val.result # "True"

\* a bag opened without any manifest passed the structure and Oxum checks and
\* validate() raised for want of a usable algorithm
C7_Witness ==
    /\ val.pc = "done"
    /\ bag.fresh
    /\ ManifestsOnDisk = {}
    /\ bag.algs = <<>>
    /\ val.result = "RuntimeError: none of the hash algorithms are supported"

\* the directory as make_bag leaves it when every step has succeeded
FullyBagged(fsys) ==
    /\ listdir(fsys) = {"data", "manifest-md5.txt", "bagit.txt", "bag-info.txt"}
    /\ isfile(fsys, <<"bagit.txt">>) /\ fsys[<<"bagit.txt">>].content = bagit_txt
    /\ isfile(fsys, <<"bag-info.txt">>)
    /\ LET i == load_tag_file(readlines(fsys[<<"bag-info.txt">>].content))
       IN  i.err = "" /\ {<<"Bagging-Date">>, <<"Payload-Oxum">>} \subseteq DOMAIN i.tags

\* C9: when make_bag returns a Bag, the directory is either fully bagged or
\* as it was before the call.
C9_NoHandleAfterFailure ==
    [][(build.pc = "return" /\ build'.pc = "returned")
          => (FullyBagged(fs') \/ fs' = build.before)]_vars

\* C10: the digests computed for an entry are those of that file's bytes
\* alone, from a fresh hash state, whatever was hashed before.
C10_DigestOfFileAlone ==
    (val.pc \in {"loop", "done"} /\ val.rel_path # None)
        => \A a \in DOMAIN val.f_hashes :
              val.f_hashes[a] = FreshDigest(a, fs[val.rel_path[1]].content)

\* what does hold of the round trip: without an entry named data, and with
\* nothing failing, make_bag returns a Bag that validates
RoundTripWithoutData ==
    (edits = 0 /\ <<"data">> \notin DOMAIN build.before)
        => /\ build.pc # "raised"
           /\ build.pc = "returned" => FullyBagged(fs)
           /\ val.pc = "done" => val.result = "True"

\* the code never reports a checksum failure
NeverChecksumFailure == val.result # ChecksumFailure

=============================================================================
